---- MODULE Spec2Model ----
(***************************************************************************)
(* Model of pokerok.py: a command-line reader of the Property table of a   *)
(* Windows Installer package.  One run of main() is modelled at the        *)
(* granularity of the calls it makes to the file system, to msilib and to  *)
(* print/sys.stderr.write.  Every string is a tuple of Unicode code        *)
(* points, so that str.lower, string comparison and the f-string layouts   *)
(* are computed as Python computes them.                                   *)
(***************************************************************************)
EXTENDS Integers, Sequences, FiniteSets

\* Largest number of rows View.Fetch hands out in one run.
MaxRows == 3

\* Field width of the label in f"{label:14}: {value}".
LabelWidth == 14

\* print_key_properties: text of the header line
KeyHeader ==
    <<61, 61, 61, 32, 1054, 1089, 1085, 1086, 1074, 1085, 1072, 1103, 32,
      1080, 1085, 1092, 1086, 1088, 1084, 1072, 1094, 1080, 1103, 32,
      1086, 32, 1087, 1088, 1086, 1076, 1091, 1082, 1090, 1077, 32, 61,
      61, 61>>

\* print_all_properties: text of the header line
AllHeader ==
    <<61, 61, 61, 32, 1042, 1089, 1077, 32, 1089, 1074, 1086, 1081, 1089,
      1090, 1074, 1072, 32, 77, 83, 73, 32, 40, 1090, 1072, 1073, 1083,
      1080, 1094, 1072, 32, 80, 114, 111, 112, 101, 114, 116, 121, 41, 32,
      61, 61, 61>>

\* print_key_properties: text shown for a key that properties.get() does not find
Placeholder ==
    <<1085, 1077, 32, 1091, 1082, 1072, 1079, 1072, 1085, 1086>>

\* main: the path-validation message up to the path
NotFoundPrefix ==
    <<1060, 1072, 1081, 1083, 32, 34>>

\* main: the path-validation message after the path
NotFoundSuffix ==
    <<34, 32, 1085, 1077, 32, 1085, 1072, 1081, 1076, 1077, 1085, 32,
      1080, 1083, 1080, 32, 1085, 1077, 32, 1103, 1074, 1083, 1103, 1077,
      1090, 1089, 1103, 32, 1092, 1072, 1081, 1083, 1086, 1084, 46, 10>>

\* main: the message for an empty result
EmptyMessage ==
    <<1058, 1072, 1073, 1083, 1080, 1094, 1072, 32, 80, 114, 111, 112,
      101, 114, 116, 121, 32, 1085, 1077, 32, 1085, 1072, 1081, 1076,
      1077, 1085, 1072, 32, 1080, 1083, 1080, 32, 1085, 1077, 32, 1089,
      1086, 1076, 1077, 1088, 1078, 1080, 1090, 32, 1079, 1072, 1087,
      1080, 1089, 1077, 1081, 46, 10>>

\* main: the msilib.MSIError message up to str(e)
DbErrorPrefix ==
    <<1054, 1096, 1080, 1073, 1082, 1072, 32, 1087, 1088, 1080, 32, 1095,
      1090, 1077, 1085, 1080, 1080, 32, 1092, 1072, 1081, 1083, 1072, 32,
      77, 83, 73, 58, 32, 1090, 1072, 1073, 1083, 1080, 1094, 1072, 32,
      80, 114, 111, 112, 101, 114, 116, 121, 32, 1085, 1077, 1076, 1086,
      1089, 1090, 1091, 1087, 1085, 1072, 32, 1080, 1083, 1080, 32, 1092,
      1072, 1081, 1083, 32, 1087, 1086, 1074, 1088, 1077, 1078, 1076,
      1077, 1085, 46, 10, 1055, 1086, 1076, 1088, 1086, 1073, 1085, 1077,
      1077, 58, 32>>

\* main: the catch-all message up to str(e)
UnexpectedPrefix ==
    <<1053, 1077, 1087, 1088, 1077, 1076, 1074, 1080, 1076, 1077, 1085,
      1085, 1072, 1103, 32, 1086, 1096, 1080, 1073, 1082, 1072, 58, 32>>

\* read_msi_properties: the text put before the original error when re-raising
WrapPrefix ==
    <<1053, 1077, 32, 1091, 1076, 1072, 1083, 1086, 1089, 1100, 32, 1086,
      1090, 1082, 1088, 1099, 1090, 1100, 32, 1090, 1072, 1073, 1083,
      1080, 1094, 1091, 32, 80, 114, 111, 112, 101, 114, 116, 121, 58,
      32>>

\* parse_args: default of msi_path
DefaultPath ==
    <<112, 111, 107, 101, 114, 111, 107, 46, 109, 115, 105>>

\* property name ProductName
ProductName ==
    <<80, 114, 111, 100, 117, 99, 116, 78, 97, 109, 101>>

\* property name PRODUCTNAME (differs from ProductName by letter case only)
PRODUCTNAME ==
    <<80, 82, 79, 68, 85, 67, 84, 78, 65, 77, 69>>

\* property name ProductCode
ProductCode ==
    <<80, 114, 111, 100, 117, 99, 116, 67, 111, 100, 101>>

\* property name ProductVersion
ProductVersion ==
    <<80, 114, 111, 100, 117, 99, 116, 86, 101, 114, 115, 105, 111, 110>>

\* property name Manufacturer
Manufacturer ==
    <<77, 97, 110, 117, 102, 97, 99, 116, 117, 114, 101, 114>>

\* property name ALLUSERS (not one of the key properties)
ALLUSERS ==
    <<65, 76, 76, 85, 83, 69, 82, 83>>

\* str(e) of an exception raised by the library or by print
ErrText ==
    <<117, 110, 107, 110, 111, 119, 110, 32, 101, 114, 114, 111, 114, 32,
      54, 101>>

\* a property value
ValueX ==
    <<88>>

\* the empty property value
ValueEmpty ==
    << >>

\* Names the Property table of the modelled packages may hold.
Names ==
    {ProductName, PRODUCTNAME, ProductCode, ProductVersion, Manufacturer,
     ALLUSERS}

\* Values the Property table of the modelled packages may hold.
Values ==
    {ValueEmpty, ValueX}

\* What os.path.exists / os.path.isfile find at the path.
PathKinds ==
    {"missing", "directory", "file"}

\* How a call into msilib ends.
LibOutcomes ==
    {"ok", "MSIError", "Exception"}

\* How a call of print ends.
PrintOutcomes ==
    {"ok", "Exception"}

(***************************************************************************)
(* Strings                                                                 *)
(***************************************************************************)

\* str.lower on one code point (ASCII letters; the names above are ASCII).
LowerChar(c) ==
    IF c >= 65 /\ c <= 90 THEN c + 32 ELSE c

\* str.lower
Lower(s) ==
    [i \in 1..Len(s) |-> LowerChar(s[i])]

\* a < b for Python strings: lexicographic by code point.
StrLess(a, b) ==
    \E i \in 1..(Len(b)) :
        /\ \A j \in 1..(i - 1) : j <= Len(a) /\ a[j] = b[j]
        /\ \/ i > Len(a)
           \/ i <= Len(a) /\ a[i] < b[i]

\* format(label, "14"): left-justified, padded with spaces to the width.
PadLabel(label) ==
    IF Len(label) >= LabelWidth
    THEN label
    ELSE label \o [i \in 1..(LabelWidth - Len(label)) |-> 32]

\* f"{label:14}: {value}"
KeyLine(label, value) ==
    PadLabel(label) \o <<58, 32>> \o value

\* f"{name} = {value}"
AllLine(name, value) ==
    name \o <<32, 61, 32>> \o value

(***************************************************************************)
(* dict: a sequence of <<name, value>> pairs with distinct names, in       *)
(* insertion order (Python dicts keep insertion order).  None is << >>     *)
(* and a value v that may be None is carried as <<v>>.                     *)
(***************************************************************************)

DictKeys(d) ==
    [i \in 1..Len(d) |-> d[i][1]]

DictHas(d, name) ==
    \E i \in 1..Len(d) : d[i][1] = name

\* d[name] for a name in d
DictLookup(d, name) ==
    d[CHOOSE i \in 1..Len(d) : d[i][1] = name][2]

\* d.get(name): << >> for None, <<value>> otherwise
DictGet(d, name) ==
    IF DictHas(d, name) THEN <<DictLookup(d, name)>> ELSE << >>

\* d[name] = value keeps the first value and the position (a slip the
\* claims about overwriting must notice)
DictSetKeepFirst(d, name, value) ==
    IF DictHas(d, name) THEN d ELSE Append(d, <<name, value>>)

\* d[name] = value: overwrite in place, or append a new key
DictSet(d, name, value) ==
    IF DictHas(d, name)
    THEN [i \in 1..Len(d) |-> IF d[i][1] = name THEN <<name, value>> ELSE d[i]]
    ELSE Append(d, <<name, value>>)

\* "not properties" taken as never true
IsEmptyNever(d) ==
    FALSE

\* not properties
IsEmpty(d) ==
    Len(d) = 0

\* the place of x in an already sorted list, comparing the names themselves
InsertByNameRaw(sorted, x) ==
    LET n == Cardinality({i \in 1..Len(sorted) : ~StrLess(x, sorted[i])})
    IN  SubSeq(sorted, 1, n) \o <<x>> \o SubSeq(sorted, n + 1, Len(sorted))

\* the place of x in an already sorted list under key=str.lower: behind
\* every element whose key is not greater (the sort is stable)
InsertByName(sorted, x) ==
    LET n == Cardinality({i \in 1..Len(sorted) :
                            ~StrLess(Lower(x), Lower(sorted[i]))})
    IN  SubSeq(sorted, 1, n) \o <<x>> \o SubSeq(sorted, n + 1, Len(sorted))

RECURSIVE SortedFrom(_, _)
\* sorted(...) of the names not yet placed, given the sorted prefix
SortedFrom(sorted, rest) ==
    IF rest = << >>
    THEN sorted
    ELSE SortedFrom(InsertByName(sorted, Head(rest)), Tail(rest))

\* sorted(properties.keys(), key=str.lower)
SortedKeys(d) ==
    SortedFrom(<< >>, DictKeys(d))

\* value = properties.get(key); "if not value" in place of "is None"
KeyValueFalsy(d, key) ==
    IF DictGet(d, key) = << >> \/ DictGet(d, key) = <<ValueEmpty>>
    THEN Placeholder
    ELSE DictGet(d, key)[1]

\* value = properties.get(key); if value is None: value = placeholder
KeyValue(d, key) ==
    IF DictGet(d, key) = << >> THEN Placeholder ELSE DictGet(d, key)[1]

\* keys: the fixed list of (key, label) pairs
keys ==
    << <<ProductName, ProductName>>, <<ProductCode, ProductCode>>,
       <<ProductVersion, ProductVersion>>, <<Manufacturer, Manufacturer>> >>

\* os.path.exists(path) alone
PathIsFileExistsOnly(kind) ==
    kind # "missing"

\* os.path.exists(path) and os.path.isfile(path)
PathIsFile(kind) ==
    kind = "file"

\* the except clause of read_msi_properties raising a plain Exception
RewrapAsException(e) ==
    <<"Exception", WrapPrefix \o e[2]>>

\* raise msilib.MSIError(f"... Property: {e}") in read_msi_properties
Rewrap(e) ==
    <<"MSIError", WrapPrefix \o e[2]>>

\* the first except clause taking every exception
HandlerForAll(e) ==
    "except_msi"

\* which except clause of main takes the exception e
HandlerFor(e) ==
    IF e[1] = "MSIError" THEN "except_msi" ELSE "except_other"

\* the handle kept open when its last reference goes away
ReleaseNot(handle) ==
    handle

\* the database object loses its last reference: its handle is closed
Release(handle) ==
    IF handle = "open" THEN "closed" ELSE handle

(***************************************************************************)
(* State of one run of main()                                              *)
(***************************************************************************)

VARIABLES
    pathKind,    \* what the file system holds at args.msi_path
    pc,          \* the statement main() or read_msi_properties() is at
    db,          \* the database handle: "none", "open" or "closed"
    calls,       \* how often each msilib operation has been invoked
    fetched,     \* the rows View.Fetch has returned so far
    record,      \* read_msi_properties: record (<< >> is None)
    name,        \* read_msi_properties: name
    rprops,      \* read_msi_properties: properties
    properties,  \* main: properties, << >> while unbound, <<dict>> once bound
    order,       \* print_all_properties: the list sorted(...) returned
    idx,         \* position of the running for loop in its list
    stdout,      \* the lines printed to sys.stdout
    stderr,      \* the texts written to sys.stderr
    exitCode,    \* the value main() returned, -1 while it runs
    exc,         \* the exception being propagated: << >> or <<type, str(e)>>
    fault        \* the call that raised: << >> or <<operation, type>>

vars ==
    <<pathKind, pc, db, calls, fetched, record, name, rprops, properties,
      order, idx, stdout, stderr, exitCode, exc, fault>>

LibCalls ==
    {"OpenDatabase", "OpenView", "Execute", "Fetch", "GetString"}

Called(op) ==
    [calls EXCEPT ![op] = @ + 1]

Init ==
    /\ pathKind \in PathKinds
    /\ pc = "start"
    /\ db = "none"
    /\ calls = [op \in LibCalls |-> 0]
    /\ fetched = << >>
    /\ record = << >>
    /\ name = << >>
    /\ rprops = << >>
    /\ properties = << >>
    /\ order = << >>
    /\ idx = 0
    /\ stdout = << >>
    /\ stderr = << >>
    /\ exitCode = -1
    /\ exc = << >>
    /\ fault = << >>

\* An exception of the given type leaves the try block of main() from the
\* operation op: control goes to the except clause that matches it.
Raise(op, type, e) ==
    /\ exc' = e
    /\ fault' = <<op, type>>
    /\ pc' = HandlerFor(e)

\* main: path = args.msi_path; the existence check and its early return
ValidatePath ==
    /\ pc = "start"
    /\ IF PathIsFile(pathKind)
       THEN /\ pc' = "open_db"
            /\ UNCHANGED <<stderr, exitCode>>
       ELSE /\ stderr' = Append(stderr,
                                NotFoundPrefix \o DefaultPath \o NotFoundSuffix)
            /\ exitCode' = 1
            /\ pc' = "done"
    /\ UNCHANGED <<pathKind, db, calls, fetched, record, name, rprops,
                   properties, order, idx, stdout, exc, fault>>

\* read_msi_properties: db = msilib.OpenDatabase(path, MSIDBOPEN_READONLY)
OpenDatabase(outcome) ==
    /\ pc = "open_db"
    /\ calls' = Called("OpenDatabase")
    /\ IF outcome = "ok"
       THEN /\ db' = "open"
            /\ pc' = "open_view"
            /\ UNCHANGED <<exc, fault>>
       ELSE /\ Raise("OpenDatabase", outcome, <<outcome, ErrText>>)
            /\ UNCHANGED db
    /\ UNCHANGED <<pathKind, fetched, record, name, rprops, properties,
                   order, idx, stdout, stderr, exitCode>>

\* read_msi_properties: view = db.OpenView(...) inside try/except MSIError
OpenView(outcome) ==
    /\ pc = "open_view"
    /\ calls' = Called("OpenView")
    /\ IF outcome = "ok"
       THEN /\ pc' = "execute"
            /\ UNCHANGED <<exc, fault>>
       ELSE IF outcome = "MSIError"
       THEN Raise("OpenView", outcome, Rewrap(<<outcome, ErrText>>))
       ELSE Raise("OpenView", outcome, <<outcome, ErrText>>)
    /\ UNCHANGED <<pathKind, db, fetched, record, name, rprops, properties,
                   order, idx, stdout, stderr, exitCode>>

\* read_msi_properties: view.Execute(None) inside try/except MSIError,
\* then properties = {}
Execute(outcome) ==
    /\ pc = "execute"
    /\ calls' = Called("Execute")
    /\ IF outcome = "ok"
       THEN /\ rprops' = << >>
            /\ pc' = "fetch"
            /\ UNCHANGED <<exc, fault>>
       ELSE /\ IF outcome = "MSIError"
               THEN Raise("Execute", outcome, Rewrap(<<outcome, ErrText>>))
               ELSE Raise("Execute", outcome, <<outcome, ErrText>>)
            /\ UNCHANGED rprops
    /\ UNCHANGED <<pathKind, db, fetched, record, name, properties,
                   order, idx, stdout, stderr, exitCode>>

\* read_msi_properties: record = view.Fetch() returns a row
FetchRow(row) ==
    /\ pc = "fetch"
    /\ Len(fetched) < MaxRows
    /\ calls' = Called("Fetch")
    /\ record' = row
    /\ fetched' = Append(fetched, row)
    /\ pc' = "get_name"
    /\ UNCHANGED <<pathKind, db, name, rprops, properties, order, idx,
                   stdout, stderr, exitCode, exc, fault>>

\* read_msi_properties: record = view.Fetch() returns None; break;
\* return properties.  The frame goes away and with it the last reference
\* to db.
FetchNone ==
    /\ pc = "fetch"
    /\ calls' = Called("Fetch")
    /\ record' = << >>
    /\ properties' = <<rprops>>
    /\ db' = Release(db)
    /\ pc' = "check_empty"
    /\ UNCHANGED <<pathKind, fetched, name, rprops, order, idx, stdout,
                   stderr, exitCode, exc, fault>>

\* read_msi_properties: view.Fetch() raises
FetchFails(outcome) ==
    /\ pc = "fetch"
    /\ outcome # "ok"
    /\ calls' = Called("Fetch")
    /\ Raise("Fetch", outcome, <<outcome, ErrText>>)
    /\ UNCHANGED <<pathKind, db, fetched, record, name, rprops, properties,
                   order, idx, stdout, stderr, exitCode>>

\* read_msi_properties: name = record.GetString(1)
GetName(outcome) ==
    /\ pc = "get_name"
    /\ calls' = Called("GetString")
    /\ IF outcome = "ok"
       THEN /\ name' = record[1]
            /\ pc' = "get_value"
            /\ UNCHANGED <<exc, fault>>
       ELSE /\ Raise("GetString", outcome, <<outcome, ErrText>>)
            /\ UNCHANGED name
    /\ UNCHANGED <<pathKind, db, fetched, record, rprops, properties,
                   order, idx, stdout, stderr, exitCode>>

\* read_msi_properties: value = record.GetString(2);
\* properties[name] = value
GetValue(outcome) ==
    /\ pc = "get_value"
    /\ calls' = Called("GetString")
    /\ IF outcome = "ok"
       THEN /\ rprops' = DictSet(rprops, name, record[2])
            /\ pc' = "fetch"
            /\ UNCHANGED <<exc, fault>>
       ELSE /\ Raise("GetString", outcome, <<outcome, ErrText>>)
            /\ UNCHANGED rprops
    /\ UNCHANGED <<pathKind, db, fetched, record, name, properties,
                   order, idx, stdout, stderr, exitCode>>

\* main: if not properties: write the message, return 2
CheckEmpty ==
    /\ pc = "check_empty"
    /\ IF IsEmpty(properties[1])
       THEN /\ stderr' = Append(stderr, EmptyMessage)
            /\ exitCode' = 2
            /\ pc' = "done"
       ELSE /\ pc' = "key_header"
            /\ UNCHANGED <<stderr, exitCode>>
    /\ UNCHANGED <<pathKind, db, calls, fetched, record, name, rprops,
                   properties, order, idx, stdout, exc, fault>>

\* One call of print: the line reaches stdout, or print raises.
WriteLine(outcome, line, next) ==
    IF outcome = "ok"
    THEN /\ stdout' = Append(stdout, line)
         /\ pc' = next
         /\ UNCHANGED <<exc, fault>>
    ELSE /\ Raise("print", outcome, <<outcome, ErrText>>)
         /\ UNCHANGED stdout

\* print_key_properties: print(header); the for loop starts
PrintKeyHeader(outcome) ==
    /\ pc = "key_header"
    /\ WriteLine(outcome, KeyHeader, "key_line")
    /\ idx' = IF outcome = "ok" THEN 1 ELSE idx
    /\ UNCHANGED <<pathKind, db, calls, fetched, record, name, rprops,
                   properties, order, stderr, exitCode>>

\* print_key_properties: one pass of for key, label in keys
PrintKeyLine(outcome) ==
    /\ pc = "key_line"
    /\ WriteLine(outcome,
                 KeyLine(keys[idx][2], KeyValue(properties[1], keys[idx][1])),
                 IF idx = Len(keys) THEN "key_blank" ELSE "key_line")
    /\ idx' = IF outcome = "ok" THEN idx + 1 ELSE idx
    /\ UNCHANGED <<pathKind, db, calls, fetched, record, name, rprops,
                   properties, order, stderr, exitCode>>

\* print_key_properties: print() and return, with no second block after it
PrintKeyBlankAndStop(outcome) ==
    /\ pc = "key_blank"
    /\ WriteLine(outcome, << >>, "done")
    /\ exitCode' = IF outcome = "ok" THEN 0 ELSE exitCode
    /\ UNCHANGED <<pathKind, db, calls, fetched, record, name, rprops,
                   properties, order, idx, stderr>>

\* print_key_properties: print(), the empty line that ends the block
PrintKeyBlank(outcome) ==
    /\ pc = "key_blank"
    /\ WriteLine(outcome, << >>, "all_header")
    /\ UNCHANGED <<pathKind, db, calls, fetched, record, name, rprops,
                   properties, order, idx, stderr, exitCode>>

\* print_all_properties: print(header)
PrintAllHeader(outcome) ==
    /\ pc = "all_header"
    /\ WriteLine(outcome, AllHeader, "all_sort")
    /\ UNCHANGED <<pathKind, db, calls, fetched, record, name, rprops,
                   properties, order, idx, stderr, exitCode>>

\* print_all_properties: sorted(properties.keys(), key=str.lower), the list
\* the for loop runs over
SortNames ==
    /\ pc = "all_sort"
    /\ order' = SortedKeys(properties[1])
    /\ idx' = 1
    /\ pc' = "all_line"
    /\ UNCHANGED <<pathKind, db, calls, fetched, record, name, rprops,
                   properties, stdout, stderr, exitCode, exc, fault>>

\* print_all_properties: one pass of for name in sorted(...)
PrintAllLine(outcome) ==
    /\ pc = "all_line"
    /\ idx <= Len(order)
    /\ WriteLine(outcome,
                 AllLine(order[idx], DictLookup(properties[1], order[idx])),
                 "all_line")
    /\ idx' = IF outcome = "ok" THEN idx + 1 ELSE idx
    /\ UNCHANGED <<pathKind, db, calls, fetched, record, name, rprops,
                   properties, order, stderr, exitCode>>

\* print_all_properties returns when the loop is exhausted; main: return 0
ReturnSuccess ==
    /\ pc = "all_line"
    /\ idx > Len(order)
    /\ exitCode' = 0
    /\ pc' = "done"
    /\ UNCHANGED <<pathKind, db, calls, fetched, record, name, rprops,
                   properties, order, idx, stdout, stderr, exc, fault>>

\* main: except msilib.MSIError as e: write the message, return 2.  Leaving
\* the clause drops e, its traceback and the frames it holds, and with them
\* the last reference to db.
HandleMSIError ==
    /\ pc = "except_msi"
    /\ stderr' = Append(stderr, DbErrorPrefix \o exc[2] \o <<10>>)
    /\ exitCode' = 2
    /\ db' = Release(db)
    /\ pc' = "done"
    /\ UNCHANGED <<pathKind, calls, fetched, record, name, rprops,
                   properties, order, idx, stdout, exc, fault>>

\* main: except Exception as e: with the exit code of the clause before it
HandleExceptionAsDbError ==
    /\ pc = "except_other"
    /\ stderr' = Append(stderr, UnexpectedPrefix \o exc[2] \o <<10>>)
    /\ exitCode' = 2
    /\ db' = Release(db)
    /\ pc' = "done"
    /\ UNCHANGED <<pathKind, calls, fetched, record, name, rprops,
                   properties, order, idx, stdout, exc, fault>>

\* main: except Exception as e: write the message, return 3
HandleException ==
    /\ pc = "except_other"
    /\ stderr' = Append(stderr, UnexpectedPrefix \o exc[2] \o <<10>>)
    /\ exitCode' = 3
    /\ db' = Release(db)
    /\ pc' = "done"
    /\ UNCHANGED <<pathKind, calls, fetched, record, name, rprops,
                   properties, order, idx, stdout, exc, fault>>

Next ==
    \/ ValidatePath
    \/ \E outcome \in LibOutcomes : OpenDatabase(outcome)
    \/ \E outcome \in LibOutcomes : OpenView(outcome)
    \/ \E outcome \in LibOutcomes : Execute(outcome)
    \/ \E row \in Names \X Values : FetchRow(row)
    \/ FetchNone
    \/ \E outcome \in LibOutcomes : FetchFails(outcome)
    \/ \E outcome \in LibOutcomes : GetName(outcome)
    \/ \E outcome \in LibOutcomes : GetValue(outcome)
    \/ CheckEmpty
    \/ \E outcome \in PrintOutcomes : PrintKeyHeader(outcome)
    \/ \E outcome \in PrintOutcomes : PrintKeyLine(outcome)
    \/ \E outcome \in PrintOutcomes : PrintKeyBlank(outcome)
    \/ \E outcome \in PrintOutcomes : PrintAllHeader(outcome)
    \/ SortNames
    \/ \E outcome \in PrintOutcomes : PrintAllLine(outcome)
    \/ ReturnSuccess
    \/ HandleMSIError
    \/ HandleException

Spec ==
    Init /\ [][Next]_vars

(***************************************************************************)
(* Properties                                                              *)
(***************************************************************************)

IsPrefix(p, s) ==
    Len(p) <= Len(s) /\ SubSeq(s, 1, Len(p)) = p

Finished ==
    pc = "done"

Raised(type) ==
    fault # << >> /\ fault[2] = type

\* C1: whenever the path does not exist or is not a regular file, the run
\* can only end with exit code 1, nothing reaches standard output and the
\* database is never opened (OpenDatabase is not invoked).
C1_InvalidPathExitsOne ==
    pathKind # "file" =>
        /\ pc \in {"start", "done"}
        /\ calls["OpenDatabase"] = 0
        /\ db = "none"
        /\ stdout = << >>
        /\ Finished => exitCode = 1

C1_Witness ==
    /\ Finished
    /\ pathKind = "directory"
    /\ exitCode = 1
    /\ stderr = <<NotFoundPrefix \o DefaultPath \o NotFoundSuffix>>

\* C2: when the path is a regular file, the database opened and the query
\* gave no row, the run ends with exit code 2 and a diagnostic on standard
\* error, and no line of either report block reaches standard output.
C2_ZeroRowsExitsTwo ==
    (pathKind = "file" /\ properties # << >> /\ fetched = << >>) =>
        /\ pc \in {"check_empty", "done"}
        /\ stdout = << >>
        /\ Finished => exitCode = 2 /\ stderr = <<EmptyMessage>>

C2_Witness ==
    /\ Finished
    /\ calls["OpenDatabase"] = 1
    /\ calls["Fetch"] = 1
    /\ fetched = << >>
    /\ properties = << << >> >>
    /\ exitCode = 2

\* C3: an msilib.MSIError raised by OpenDatabase, OpenView, Execute, Fetch
\* or GetString ends the run with exit code 2 and the database-error message
\* on standard error; the run never ends with 0 or 3 and no report line is
\* on standard output.
C3_MSIErrorExitsTwo ==
    Raised("MSIError") =>
        /\ fault[1] \in LibCalls
        /\ stdout = << >>
        /\ exitCode \in {-1, 2}
        /\ Finished => /\ exitCode = 2
                       /\ Len(stderr) = 1
                       /\ IsPrefix(DbErrorPrefix, stderr[1])

C3_Witness ==
    /\ Finished
    /\ fault = <<"OpenView", "MSIError">>
    /\ exitCode = 2
    /\ stderr = <<DbErrorPrefix \o WrapPrefix \o ErrText \o <<10>> >>

\* The two report blocks are on standard output in full, the key-properties
\* block before the all-properties block.
BothBlocksPrinted ==
    /\ properties # << >>
    /\ Len(stdout) = 7 + Len(properties[1])
    /\ stdout[1] = KeyHeader
    /\ stdout[6] = << >>
    /\ stdout[7] = AllHeader

\* C4: a finished run has exit code 0 if and only if the path was a regular
\* file, the reader returned a non-empty PropertySet and both blocks were
\* printed in full, key properties first; such a run has used each step of
\* the pipeline once and has written nothing to standard error.
C4_ExitZeroIffPipelineCompleted ==
    Finished =>
        /\ exitCode = 0 <=> /\ pathKind = "file"
                            /\ properties # << >>
                            /\ properties[1] # << >>
                            /\ BothBlocksPrinted
        /\ exitCode = 0 => /\ stderr = << >>
                           /\ calls["OpenDatabase"] = 1
                           /\ calls["OpenView"] = 1
                           /\ calls["Execute"] = 1
                           /\ calls["Fetch"] = Len(fetched) + 1

C4_Witness ==
    /\ Finished
    /\ exitCode = 0
    /\ Len(fetched) = 2
    /\ Len(stdout) = 9
    /\ stderr = << >>

\* C5: an exception that is not an msilib.MSIError, raised after the path
\* check by the reader or by a print, ends the run with exit code 3 and the
\* unexpected-error message on standard error; exit code 3 has no other
\* cause.
C5_OtherExceptionExitsThree ==
    /\ (Finished /\ Raised("Exception")) =>
           /\ exitCode = 3
           /\ stderr = <<UnexpectedPrefix \o ErrText \o <<10>> >>
    /\ exitCode = 3 => Raised("Exception")

C5_Witness ==
    /\ Finished
    /\ exitCode = 3
    /\ fault = <<"print", "Exception">>
    /\ Len(stdout) > 7

IsNotFoundMessage(m) ==
    IsPrefix(NotFoundPrefix, m)

IsDatabaseMessage(m) ==
    IsPrefix(DbErrorPrefix, m) \/ m = EmptyMessage

IsUnexpectedMessage(m) ==
    IsPrefix(UnexpectedPrefix, m)

ErrorKindsDistinct ==
    /\ \A op \in {"OpenDatabase", "OpenView", "Execute"} : calls[op] <= 1
    /\ Len(stderr) <= 1
    /\ (Finished /\ exitCode # 0) =>
           /\ exitCode \in {1, 2, 3}
           /\ Len(stderr) = 1
           /\ exitCode = 1 <=> IsNotFoundMessage(stderr[1])
           /\ exitCode = 2 <=> IsDatabaseMessage(stderr[1])
           /\ exitCode = 3 <=> IsUnexpectedMessage(stderr[1])

ErrorIsTerminal ==
    stderr # << >> =>
        UNCHANGED <<stdout, stderr, calls, fetched, exitCode, db>>

\* C6: the three error kinds have pairwise distinct exit codes and pairwise
\* distinct messages; OpenDatabase, OpenView and Execute are each invoked at
\* most once in a run; once an error has been reported there is no further
\* database operation and no further write to standard output.
C6_ErrorsDistinctAndTerminal ==
    []ErrorKindsDistinct /\ [][ErrorIsTerminal]_vars

C6_Witness ==
    /\ Finished
    /\ exitCode = 2
    /\ fault = <<"Execute", "MSIError">>
    /\ calls["Execute"] = 1
    /\ Len(stderr) = 1

\* C7: no finished run leaves the database handle open; a run that opened
\* it (the reader returned, OpenView or Execute failed, or fetching a row
\* failed) ends with the handle closed.
C7_HandleReleased ==
    Finished =>
        /\ db # "open"
        /\ (calls["OpenDatabase"] = 1 /\ calls["OpenView"] = 1) => db = "closed"

C7_Witness ==
    /\ Finished
    /\ fault = <<"Fetch", "MSIError">>
    /\ Len(fetched) = 1
    /\ db = "closed"

\* The four key properties in the order of the key-properties block.
KeyOrder ==
    <<ProductName, ProductCode, ProductVersion, Manufacturer>>

\* The text after the label of a key: the value stored under the key in d,
\* the placeholder when d has no such key.
StoredOrPlaceholder(d, key) ==
    IF \E i \in 1..Len(d) : d[i][1] = key
    THEN d[CHOOSE i \in 1..Len(d) : d[i][1] = key][2]
    ELSE Placeholder

\* C8: the key-properties block has one line for each of ProductName,
\* ProductCode, ProductVersion, Manufacturer, in this order, between its
\* header and its closing empty line; the line of a key shows the stored
\* value when the key is in the set and the placeholder when it is not.
C8_KeyBlockLines ==
    properties # << >> =>
        /\ \A i \in 1..4 :
               Len(stdout) >= i + 1 =>
                   stdout[i + 1] =
                       PadLabel(KeyOrder[i]) \o <<58, 32>>
                           \o StoredOrPlaceholder(properties[1], KeyOrder[i])
        /\ Len(stdout) >= 1 => stdout[1] = KeyHeader
        /\ Len(stdout) >= 6 => stdout[6] = << >>

\* {ProductName: "", ProductVersion: "X"}: "ProductName   : " and
\* "Manufacturer  : " followed by the placeholder.
C8_Witness ==
    /\ Len(stdout) >= 6
    /\ properties = << << <<ProductName, ValueEmpty>>,
                          <<ProductVersion, ValueX>> >> >>
    /\ stdout[2] = <<80, 114, 111, 100, 117, 99, 116, 78, 97, 109, 101,
                     32, 32, 32, 58, 32>>
    /\ stdout[4] = <<80, 114, 111, 100, 117, 99, 116, 86, 101, 114, 115,
                     105, 111, 110, 58, 32, 88>>
    /\ stdout[5] = <<77, 97, 110, 117, 102, 97, 99, 116, 117, 114, 101,
                     114, 32, 32, 58, 32>> \o Placeholder

\* The one-to-one maps of 1..n onto itself.
Perms(n) ==
    {f \in [1..n -> 1..n] : \A i, j \in 1..n : f[i] = f[j] => i = j}

\* The dict d with its entries inserted in the order f.
Reorder(d, f) ==
    [k \in 1..Len(d) |-> d[f[k]]]

\* The lines print_all_properties gives for the dict d.
Listing(d) ==
    LET sorted == SortedKeys(d)
    IN  [k \in 1..Len(d) |-> AllLine(sorted[k], DictLookup(d, sorted[k]))]

\* The lines on standard output after the header of the second block.
PrintedListing ==
    SubSeq(stdout, 8, Len(stdout))

Succeeded ==
    Finished /\ exitCode = 0

\* Every entry is listed once, in non-decreasing order of the lower-cased
\* name; with ties, when wanted, in the order of insertion.
ListedOnceSorted(tiesInInsertionOrder) ==
    LET d == properties[1]
        printed == PrintedListing
        low == [i \in 1..Len(d) |-> Lower(d[i][1])]
    IN  \E f \in Perms(Len(d)) :
            /\ printed = [k \in 1..Len(d) |-> AllLine(d[f[k]][1], d[f[k]][2])]
            /\ \A k \in 1..(Len(d) - 1) :
                   /\ ~StrLess(low[f[k + 1]], low[f[k]])
                   /\ (tiesInInsertionOrder /\ low[f[k + 1]] = low[f[k]])
                      => f[k] < f[k + 1]

\* The listing is the same for every order of insertion of the entries.
SameForEveryInsertionOrder ==
    LET d == properties[1]
        printed == PrintedListing
    IN  \A f \in Perms(Len(d)) : Listing(Reorder(d, f)) = printed

NoTwoNamesDifferByCaseOnly ==
    \A i, j \in 1..Len(properties[1]) :
        Lower(properties[1][i][1]) = Lower(properties[1][j][1]) => i = j

\* C9 as stated: every entry listed exactly once in non-decreasing order of
\* the lower-cased name, the order of the lines depending on the contents of
\* the set only, also when two names differ by letter case only.
C9_OrderDependsOnContentsOnly ==
    Succeeded => ListedOnceSorted(FALSE) /\ SameForEveryInsertionOrder

\* C9 amended: every entry listed exactly once in non-decreasing order of
\* the lower-cased name; names that differ by letter case only are listed
\* in the order of their insertion, and when no two names differ by letter
\* case only the order of the lines depends on the contents of the set only.
C9_SortedStableByLowerName ==
    Succeeded =>
        /\ ListedOnceSorted(TRUE)
        /\ NoTwoNamesDifferByCaseOnly => SameForEveryInsertionOrder

C9_Witness ==
    /\ Succeeded
    /\ Len(properties[1]) = 3
    /\ properties[1][1][1] = ProductName
    /\ properties[1][2][1] = PRODUCTNAME
    /\ properties[1][3][1] = ProductCode
    /\ stdout[8] = AllLine(ProductCode, properties[1][3][2])
    /\ stdout[9] = AllLine(ProductName, properties[1][1][2])
    /\ stdout[10] = AllLine(PRODUCTNAME, properties[1][2][2])

\* The mapping the reader returned holds the names of the fetched rows,
\* each once, each with the value of the last fetched row of that name.
ReturnedMappingIsLastValues ==
    properties # << >> =>
        LET d == properties[1]
        IN  /\ {d[i][1] : i \in 1..Len(d)}
                 = {fetched[i][1] : i \in 1..Len(fetched)}
            /\ \A i, j \in 1..Len(d) : d[i][1] = d[j][1] => i = j
            /\ \A i \in 1..Len(d) :
                   \E r \in 1..Len(fetched) :
                       /\ fetched[r] = d[i]
                       /\ \A s \in (r + 1)..Len(fetched) :
                              fetched[s][1] # d[i][1]

ReturnedMappingNotModified ==
    properties # << >> => properties' = properties

\* C10: the mapping read_msi_properties returns has the names of column 1
\* of the fetched rows as its keys, each mapped to the column-2 value of the
\* last fetched row with that name, and neither print function changes it.
C10_MappingFromRows ==
    []ReturnedMappingIsLastValues /\ [][ReturnedMappingNotModified]_vars

C10_Witness ==
    /\ Succeeded
    /\ Len(fetched) = 3
    /\ fetched[1] = <<ProductName, ValueX>>
    /\ fetched[2] = <<ALLUSERS, ValueX>>
    /\ fetched[3] = <<ProductName, ValueEmpty>>
    /\ properties = << << <<ProductName, ValueEmpty>>, <<ALLUSERS, ValueX>> >> >>
====
